---- MODULE Spec2Model ----
(***************************************************************************)
(* Model of the key-material subsystem of VanitySearch (src/main.cpp):     *)
(* generateKeyPair, outputAdd, the CHECK_ADDR macro and reconstructAdd,    *)
(* as dispatched by main for the -kp and -rp commands.                     *)
(*                                                                         *)
(* The secp256k1 group is scaled down to a group of prime order 7 with the *)
(* same algebraic structure: lambda = 2 and lambda2 = 4 are the two        *)
(* primitive cube roots of unity modulo 7, as the program's lambda and     *)
(* lambda2 are modulo the curve order.  The generator is the scalar 1, so  *)
(* a public key is its private scalar reduced modulo the order.            *)
(***************************************************************************)
EXTENDS Integers, Sequences, FiniteSets, TLC

VARIABLES
  \* ---- command line and environment (never written by the program)
  cmd,            \* "kp" (-kp) or "rp" (-rp)
  seedLen,        \* seed.length() of the -s / -ps argument
  searchMode,     \* "SEARCH_COMPRESSED", "SEARCH_UNCOMPRESSED", "SEARCH_BOTH"
  paranoiacSeed,  \* -ps given
  privAddr,       \* text of the known base key (argument of -rp)
  fileOpens,      \* whether the record file can be opened for reading
  file,           \* the lines of the record file on disk
  outputFile,     \* argument of -o, "" when absent
  \* ---- control
  pc,             \* "main", "loop", "check", "after", "done", "exit", "crashed"
  exitCode,       \* status passed to exit(), meaningful once pc is "done" or "exit"
  \* ---- output
  stdoutS,        \* what was written to stdout, in order
  outFile,        \* what was appended to the destination file, in order
  kpOps,          \* library calls made by generateKeyPair, in order
  \* ---- locals of reconstructAdd
  lines, i, privKey, compressed, addrType, addr, partialPrivAddr,
  partialPrivKey, partialMode, e, fullPriv, cAddr, found,
  t,              \* which of the six CHECK_ADDR() expansions comes next
  \* ---- history
  sinkCalls,      \* the outputAdd calls made so far: record index, transform,
                  \* scalar, and whether the destination file was opened
  reads           \* the indices at which the vector lines was read so far

inputs == <<cmd, seedLen, searchMode, paranoiacSeed, privAddr, fileOpens, file,
            outputFile>>
locals == <<lines, i, privKey, compressed, addrType, addr, partialPrivAddr,
            partialPrivKey, partialMode, e, fullPriv, cAddr, found, t>>
vars == <<inputs, pc, exitCode, stdoutS, outFile, kpOps, locals, sinkCalls, reads>>

----------------------------------------------------------------------------
(* Bounds of the model *)

MaxLines == 4

MaxSeedLen == 9

----------------------------------------------------------------------------
(* Program constants *)

order == 7

lambda == 2

lambda2 == 4

Scalars == 0 .. (order - 1)

\* Sentinel scalar returned by the decoder for an undecodable text.
InvalidScalar == 0 - 1

----------------------------------------------------------------------------
(* Texts *)

\* A private key text (WIF): decodable or not; a decodable one carries a
\* scalar and a compression flag.
KeyText(k, c) == [ok |-> TRUE, key |-> k, comp |-> c]

BadKeyText == [ok |-> FALSE, key |-> 0, comp |-> FALSE]

\* An address text: leading character, and the compression flag and public
\* key it was encoded from.
Address(l, c, p) == [lead |-> l, comp |-> c, pub |-> p]

NoAddress == Address("", FALSE, 0)

\* A line of the record file: its first characters and what follows them.
PubAddressLine(a) == [prefix |-> "PubAddress: ", addr |-> a, text |-> BadKeyText]

PartialPrivLine(x) == [prefix |-> "PartialPriv: ", addr |-> NoAddress, text |-> x]

\* A line that starts with neither prefix.
OtherLine == [prefix |-> "#", addr |-> NoAddress, text |-> BadKeyText]

\* A line that is empty once its trailing white space is removed.
BlankLine == [prefix |-> "", addr |-> NoAddress, text |-> BadKeyText]

\* An output line: label, tag and value.
Out(k, g, v) == [k |-> k, tag |-> g, v |-> v]

----------------------------------------------------------------------------
(* The curve engine and the address codec *)

IsNegative(x) == x < 0

\* Secp256K1::DecodePrivateKey: the scalar of a decodable text, the sentinel
\* otherwise.
DecodePrivateKey(x) == IF x.ok THEN x.key ELSE InvalidScalar

\* The values DecodePrivateKey can leave in *compressed: the text's flag when
\* it decodes; when it does not, the caller's bool is not known to be
\* written, so it holds either value.
DecodedModes(x) == IF x.ok THEN {x.comp} ELSE BOOLEAN

ModAddK1order(a, b) == (a + b) % order

ModMulK1order(a, b) == (a * b) % order

ComputePublicKey(k) == k % order

AddressLead(type) ==
  CASE type = "P2PKH" -> "1"
    [] type = "P2SH" -> "3"
    [] OTHER -> "b"

GetAddress(type, c, p) == Address(AddressLead(type), c, p)

GetPrivAddress(c, k) == KeyText(k, c)

HexDigit(d) ==
  <<"0", "1", "2", "3", "4", "5", "6", "7", "8", "9", "a", "b", "c", "d", "e", "f">>[d + 1]

RECURSIVE GetBase16(_)
GetBase16(k) ==
  IF k < 16 THEN <<HexDigit(k)>> ELSE Append(GetBase16(k \div 16), HexDigit(k % 16))

----------------------------------------------------------------------------
(* generateKeyPair *)

\* SeedTooShort accepting a seed of seven characters.
SeedTooShortByOne(len) == len < 7

SeedTooShort(len) == len < 8

ModeAmbiguous(mode) == mode = "SEARCH_BOTH"

\* Timer::getSeed(32) is called for a paranoiac seed before the mode is checked.
SeedOps(paranoiac) == IF paranoiac THEN <<"getSeed">> ELSE <<>>

DeriveOps == <<"pbkdf2_hmac_sha512", "sha256", "ComputePublicKey">>

generateKeyPair ==
  /\ pc = "main"
  /\ cmd = "kp"
  /\ IF SeedTooShort(seedLen)
       THEN /\ stdoutS' = stdoutS \o <<Out("Error: seed too short", "", seedLen),
                                     Out("Ex", "", 0)>>
            /\ kpOps' = kpOps
            /\ pc' = "exit"
            /\ exitCode' = 0 - 1
       ELSE IF ModeAmbiguous(searchMode)
         THEN /\ stdoutS' = Append(stdoutS, Out("Error: compressed or uncompressed", "", 0))
              /\ kpOps' = kpOps \o SeedOps(paranoiacSeed)
              /\ pc' = "exit"
              /\ exitCode' = 0 - 1
         ELSE /\ stdoutS' = stdoutS \o <<Out("Priv", "", searchMode = "SEARCH_COMPRESSED"),
                                       Out("Pub", "", searchMode = "SEARCH_COMPRESSED")>>
              /\ kpOps' = kpOps \o SeedOps(paranoiacSeed) \o DeriveOps
              /\ pc' = "done"
              /\ exitCode' = 0
  /\ UNCHANGED <<inputs, outFile, locals, sinkCalls, reads>>

----------------------------------------------------------------------------
(* parseFile *)

\* The lines of the file that are not empty once trimmed, in file order.
parseFile(f) == SelectSeq(f, LAMBDA l : l # BlankLine)

----------------------------------------------------------------------------
(* outputAdd *)

WifLine(type, pAddr) ==
  CASE type = "P2PKH" -> <<Out("Priv (WIF)", "p2pkh:", pAddr)>>
    [] type = "P2SH" -> <<Out("Priv (WIF)", "p2wpkh-p2sh:", pAddr)>>
    [] type = "BECH32" -> <<Out("Priv (WIF)", "p2wpkh:", pAddr)>>
    [] OTHER -> <<>>

\* The fprintf calls of outputAdd, in order.
OutputRecord(type, a, pAddr, pAddrHex) ==
  <<Out("Pub Addr", "", a)>> \o WifLine(type, pAddr)
    \o <<Out("Priv (HEX)", "0x", pAddrHex)>>

\* SinkAfter returning after the diagnostic when the destination does not open.
SinkAfterDropping(dest, opened, std, dst, rec) ==
  IF dest # ""
    THEN IF opened
           THEN [std |-> std, dst |-> dst \o rec]
           ELSE [std |-> Append(std, Out("Cannot open for writing", "", dest)),
                 dst |-> dst]
    ELSE [std |-> std \o rec, dst |-> dst]

\* The two streams after outputAdd wrote rec; opened is the result of
\* fopen(outputFile, "a").
SinkAfter(dest, opened, std, dst, rec) ==
  IF dest # ""
    THEN IF opened
           THEN [std |-> std, dst |-> dst \o rec]
           ELSE [std |-> Append(std, Out("Cannot open for writing", "", dest)) \o rec,
                 dst |-> dst]
    ELSE [std |-> std \o rec, dst |-> dst]

outputAdd(opened, type, a, pAddr, pAddrHex) ==
  LET after == SinkAfter(outputFile, opened, stdoutS, outFile,
                         OutputRecord(type, a, pAddr, pAddrHex))
  IN /\ stdoutS' = after.std
     /\ outFile' = after.dst

----------------------------------------------------------------------------
(* reconstructAdd *)

\* AddrTypeOf with the default label falling into the BECH32 case.
AddrTypeOfFallthrough(lead) ==
  CASE lead = "1" -> "P2PKH"
    [] lead = "3" -> "P2SH"
    [] OTHER -> "BECH32"

\* The switch on the first character of the address.
AddrTypeOf(lead) ==
  CASE lead = "1" -> "P2PKH"
    [] lead = "3" -> "P2SH"
    [] lead \in {"b", "B"} -> "BECH32"
    [] OTHER -> "unsupported"

HasPubAddressPrefix(line) == line.prefix = "PubAddress: "

\* HasPartialPrivPrefix accepting every line that is not an address line.
HasPartialPrivPrefixLoose(line) == line.prefix # "PubAddress: "

HasPartialPrivPrefix(line) == line.prefix = "PartialPriv: "

\* BaseKeyRejected testing for a zero scalar instead of a negative one.
BaseKeyRejectedZero(known) == known = 0

\* The test that guards the known base key.
BaseKeyRejected(known) == IsNegative(known)

\* The test made after a record's partial key is decoded.
PartialKeyRejected(known, partial) == IsNegative(known)

ModeMismatch(mode, c) == mode # c

\* Unresolved with the test inverted.
UnresolvedInverted(f) == f

\* The test made after the six trials of a record.
Unresolved(f) == ~f

\* NextIndex advancing by one line.
NextIndexByOne(n) == n + 1

\* The loop increment.
NextIndex(n) == n + 2

\* Transform with the fifth block multiplying by lambda2, as the sixth does.
TransformRepeated(n, k) ==
  CASE n = 1 -> k
    [] n = 2 -> ModMulK1order(k, lambda)
    [] n = 3 -> ModMulK1order(k, lambda2)
    [] n = 4 -> (0 - k) + order
    [] OTHER -> (0 - ModMulK1order(k, lambda2)) + order

\* The value of e before the n-th CHECK_ADDR().
Transform(n, k) ==
  CASE n = 1 -> k
    [] n = 2 -> ModMulK1order(k, lambda)
    [] n = 3 -> ModMulK1order(k, lambda2)
    [] n = 4 -> (0 - k) + order
    [] n = 5 -> (0 - ModMulK1order(k, lambda)) + order
    [] OTHER -> (0 - ModMulK1order(k, lambda2)) + order

\* Lines 280-292: decode the known base key, then load the record file.
Start ==
  /\ pc = "main"
  /\ cmd = "rp"
  /\ privKey' = DecodePrivateKey(privAddr)
  /\ compressed' \in DecodedModes(privAddr)
  /\ IF BaseKeyRejected(privKey')
       THEN /\ pc' = "exit"
            /\ exitCode' = 0 - 1
            /\ UNCHANGED <<lines, i, stdoutS>>
       ELSE IF ~fileOpens
         THEN /\ pc' = "exit"
              /\ exitCode' = 0 - 1
              /\ stdoutS' = Append(stdoutS, Out("Error: Cannot open", "", 0))
              /\ UNCHANGED <<lines, i>>
         ELSE /\ lines' = parseFile(file)
              /\ i' = 0
              /\ pc' = "loop"
              /\ UNCHANGED <<exitCode, stdoutS>>
  /\ UNCHANGED <<inputs, outFile, kpOps, addrType, addr, partialPrivAddr,
                 partialPrivKey, partialMode, e, fullPriv, cAddr, found, t, sinkCalls,
                 reads>>

\* exit(-1) after a diagnostic naming line i.
Fatal(msg) ==
  /\ stdoutS' = Append(stdoutS, Out(msg, "", i))
  /\ pc' = "exit"
  /\ exitCode' = 0 - 1
  /\ UNCHANGED i

\* continue after the diagnostics ds.
Continue(ds) ==
  /\ stdoutS' = stdoutS \o ds
  /\ pc' = "loop"
  /\ i' = NextIndex(i)
  /\ UNCHANGED exitCode

\* What a read of lines[i+1] past the end of the vector may yield: any text.
GarbageLines ==
  {OtherLine, PartialPrivLine(BadKeyText)}
    \cup {PartialPrivLine(KeyText(0, c)) : c \in BOOLEAN}

\* Lines 322-341 with l1 the value read from lines[i+1].
ReadPartial(l1) ==
  IF ~HasPartialPrivPrefix(l1)
    THEN /\ Fatal("Invalid partialkey info file (PartialPriv expected)")
         /\ UNCHANGED <<partialPrivAddr, partialPrivKey, partialMode, found, t>>
    ELSE /\ partialPrivAddr' = l1.text
         /\ partialPrivKey' = DecodePrivateKey(l1.text)
         /\ partialMode' \in DecodedModes(l1.text)
         /\ IF PartialKeyRejected(privKey, partialPrivKey')
              THEN /\ Fatal("Invalid partialkey info file")
                   /\ UNCHANGED <<found, t>>
              ELSE IF ModeMismatch(partialMode', compressed)
                THEN /\ Continue(<<Out("Warning, wrong compression mode", "", i)>>)
                     /\ UNCHANGED <<found, t>>
                ELSE /\ found' = FALSE
                     /\ t' = 1
                     /\ pc' = "check"
                     /\ UNCHANGED <<i, exitCode, stdoutS>>

\* The indices the head of the iteration at index n reads: lines[n] always
\* (line 299), and lines[n+1] (line 322) once line n is an address line of a
\* supported format; no test of n+1 against lines.size() precedes that read.
LinesRead(n, l0) ==
  IF HasPubAddressPrefix(l0) /\ AddrTypeOf(l0.addr.lead) # "unsupported"
    THEN {n, n + 1}
    ELSE {n}

\* Lines 294-341: the head of one loop iteration, up to the candidate trial.
RecordHead ==
  /\ pc = "loop"
  /\ i < Len(lines)
  /\ LET l0 == lines[i + 1] IN
     IF ~HasPubAddressPrefix(l0)
       THEN /\ Fatal("Invalid partialkey info file (PubAddress expected)")
            /\ UNCHANGED <<addr, addrType, partialPrivAddr, partialPrivKey,
                           partialMode, found, t>>
       ELSE /\ addr' = l0.addr
            /\ IF AddrTypeOf(l0.addr.lead) = "unsupported"
                 THEN /\ Continue(<<Out("Invalid partialkey info file", "", i),
                                    Out("Address format not supported", "", l0.addr)>>)
                      /\ UNCHANGED <<addrType, partialPrivAddr, partialPrivKey,
                                     partialMode, found, t>>
                 ELSE /\ addrType' = AddrTypeOf(l0.addr.lead)
                      /\ IF i + 1 < Len(lines)
                           THEN ReadPartial(lines[i + 2])
                           ELSE \* lines[i+1] is read past the end of the vector
                                \/ \E g \in GarbageLines : ReadPartial(g)
                                \/ /\ pc' = "crashed"
                                   /\ UNCHANGED <<i, exitCode, stdoutS, partialPrivAddr,
                                                  partialPrivKey, partialMode, found, t>>
  /\ reads' = reads \cup LinesRead(i, lines[i + 1])
  /\ UNCHANGED <<inputs, outFile, kpOps, lines, privKey, compressed, e, fullPriv,
                 cAddr, sinkCalls>>

\* One expansion of CHECK_ADDR(), with the assignments to e that precede it.
CheckAddr ==
  /\ pc = "check"
  /\ \E opened \in BOOLEAN :
       LET e1 == Transform(t, privKey)
           full == ModAddK1order(e1, partialPrivKey)
           c == GetAddress(addrType, compressed, ComputePublicKey(full))
       IN /\ e' = e1
          /\ fullPriv' = full
          /\ cAddr' = c
          /\ IF c = addr
               THEN /\ found' = TRUE
                    /\ outputAdd(opened, addrType, addr,
                                 GetPrivAddress(compressed, full), GetBase16(full))
                    /\ sinkCalls' = Append(sinkCalls,
                                           [rec |-> i, t |-> t, key |-> full,
                                            toFile |-> outputFile # "" /\ opened])
               ELSE UNCHANGED <<found, stdoutS, outFile, sinkCalls>>
  /\ IF t < 6
       THEN /\ t' = t + 1
            /\ pc' = "check"
       ELSE /\ t' = t
            /\ pc' = "after"
  /\ UNCHANGED <<inputs, exitCode, kpOps, lines, i, privKey, compressed, addrType,
                 addr, partialPrivAddr, partialPrivKey, partialMode, reads>>

\* Lines 384-391: the report of an unresolved record and the loop increment.
RecordEnd ==
  /\ pc = "after"
  /\ stdoutS' = IF Unresolved(found)
                  THEN Append(stdoutS, Out("Unable to reconstruct final key", "",
                                           <<i, addr, partialPrivAddr>>))
                  ELSE stdoutS
  /\ i' = NextIndex(i)
  /\ pc' = "loop"
  /\ UNCHANGED <<inputs, exitCode, outFile, kpOps, lines, privKey, compressed,
                 addrType, addr, partialPrivAddr, partialPrivKey, partialMode, e,
                 fullPriv, cAddr, found, t, sinkCalls, reads>>

\* The loop condition fails: reconstructAdd returns and main calls exit(0).
Return ==
  /\ pc = "loop"
  /\ i >= Len(lines)
  /\ pc' = "done"
  /\ exitCode' = 0
  /\ UNCHANGED <<inputs, stdoutS, outFile, kpOps, locals, sinkCalls, reads>>

----------------------------------------------------------------------------
(* Inputs *)

SearchModes == {"SEARCH_COMPRESSED", "SEARCH_UNCOMPRESSED", "SEARCH_BOTH"}

Leads == {"1", "3", "b", "B", "x"}

AllKeyTexts == {BadKeyText} \cup {KeyText(k, c) : k \in Scalars, c \in BOOLEAN}

AllAddresses == {Address(l, c, p) : l \in Leads, c \in BOOLEAN, p \in Scalars}

RECURSIVE SeqsUpTo(_, _)
SeqsUpTo(S, n) ==
  IF n = 0 THEN {<<>>}
  ELSE LET shorter == SeqsUpTo(S, n - 1)
       IN shorter \cup {Append(s, x) : s \in {u \in shorter : Len(u) = n - 1}, x \in S}

\* The state main hands to the selected command.
InitWith(keys, files, dests) ==
  /\ pc = "main"
  /\ exitCode = 0
  /\ stdoutS = <<>>
  /\ outFile = <<>>
  /\ kpOps = <<>>
  /\ sinkCalls = <<>>
  /\ reads = {}
  /\ lines = <<>>
  /\ i = 0
  /\ privKey = 0
  /\ compressed = FALSE
  /\ addrType = "P2PKH"
  /\ addr = NoAddress
  /\ partialPrivAddr = BadKeyText
  /\ partialPrivKey = 0
  /\ partialMode = FALSE
  /\ e = 0
  /\ fullPriv = 0
  /\ cAddr = NoAddress
  /\ found = FALSE
  /\ t = 1
  /\ \/ /\ cmd = "kp"
        /\ seedLen \in 0 .. MaxSeedLen
        /\ searchMode \in SearchModes
        /\ paranoiacSeed \in BOOLEAN
        /\ privAddr = BadKeyText
        /\ fileOpens = FALSE
        /\ file = <<>>
        /\ outputFile = ""
     \/ /\ cmd = "rp"
        /\ seedLen = 0
        /\ searchMode = "SEARCH_COMPRESSED"
        /\ paranoiacSeed = FALSE
        /\ privAddr \in keys
        /\ outputFile \in dests
        /\ \/ /\ fileOpens = TRUE
              /\ file \in files
           \/ /\ fileOpens = FALSE
              /\ file = <<>>

\* Record files of up to MaxLines lines over a small alphabet.
SmallKeyTexts == {BadKeyText, KeyText(0, TRUE), KeyText(3, TRUE)}

SmallLines ==
  {PubAddressLine(Address("1", TRUE, 0)), PubAddressLine(Address("1", TRUE, 3)),
   PubAddressLine(Address("b", TRUE, 2)), PubAddressLine(Address("x", TRUE, 0)),
   PartialPrivLine(KeyText(0, TRUE)), PartialPrivLine(KeyText(0, FALSE)),
   PartialPrivLine(BadKeyText), OtherLine, BlankLine}

Init == InitWith(SmallKeyTexts, SeqsUpTo(SmallLines, MaxLines), {""})

\* Every single record over the whole alphabet, with and without a destination.
SingleRecords ==
  {<<PubAddressLine(a), PartialPrivLine(x)>> : a \in AllAddresses, x \in AllKeyTexts}

InitSingle == InitWith(AllKeyTexts, SingleRecords, {"", "found.txt"})

Next ==
  \/ generateKeyPair
  \/ Start
  \/ RecordHead
  \/ CheckAddr
  \/ RecordEnd
  \/ Return

Spec == Init /\ [][Next]_vars

SpecSingle == InitSingle /\ [][Next]_vars

\* The process is scheduled until it exits: a step that can be taken is taken.
FairSpec == Spec /\ WF_vars(Next)

----------------------------------------------------------------------------
(* Vocabulary of the properties *)

\* The six transforms of the known scalar k, as the specification states them.
ClaimT(n, k) ==
  CASE n = 1 -> k
    [] n = 2 -> (k * lambda) % order
    [] n = 3 -> (k * lambda * lambda) % order
    [] n = 4 -> order - k
    [] n = 5 -> order - ((k * lambda) % order)
    [] OTHER -> order - ((k * lambda * lambda) % order)

\* The leading characters of the supported address formats, and their types.
SupportedLeads == {"1", "3", "b", "B"}

ClaimType(lead) ==
  CASE lead = "1" -> "P2PKH"
    [] lead = "3" -> "P2SH"
    [] OTHER -> "BECH32"

\* The address of the scalar full for the type of the target a, in mode c.
AddressOf(a, c, full) == GetAddress(ClaimType(a.lead), c, ComputePublicKey(full))

\* The indices of the records whose two lines are both in the list.
Pairs == {r \in 0 .. (Len(lines) - 2) : r % 2 = 0}

\* rec occurs in the stream s as consecutive lines.
Occurs(rec, s) ==
  \E j \in 0 .. (Len(s) - Len(rec)) : SubSeq(s, j + 1, j + Len(rec)) = rec

\* Record r (the index of its first line) was reported unresolved.
ReportedUnresolved(r) ==
  \E j \in DOMAIN stdoutS :
    /\ stdoutS[j].k = "Unable to reconstruct final key"
    /\ stdoutS[j].v[1] = r

\* The indices of the records the loop has finished with.
Finished == {r \in 0 .. (Len(lines) - 1) : r % 2 = 0 /\ r < i}

\* The six candidate addresses of the record under trial.
CandidateAddresses ==
  {AddressOf(addr, compressed, (partialPrivKey + ClaimT(n, privKey)) % order) : n \in 1 .. 6}

----------------------------------------------------------------------------
(* C1 *)

\* Record r is well formed, in the base key's mode, and its target is the
\* address of (partial + Tn(k)) mod order.
C1_Case(r, n) ==
  /\ privAddr.ok
  /\ r + 2 <= Len(lines)
  /\ lines[r + 1].prefix = "PubAddress: "
  /\ lines[r + 1].addr.lead \in SupportedLeads
  /\ lines[r + 2].prefix = "PartialPriv: "
  /\ lines[r + 2].text.ok
  /\ lines[r + 2].text.comp = privAddr.comp
  /\ lines[r + 1].addr =
       AddressOf(lines[r + 1].addr, privAddr.comp,
                 (lines[r + 2].text.key + ClaimT(n, privAddr.key)) % order)

\* A result record for the target of record r, holding a scalar whose address
\* is that target, was written to one of the two streams.
C1_Emitted(r) ==
  LET a == lines[r + 1].addr IN
  \E s \in Scalars :
    /\ AddressOf(a, privAddr.comp, s) = a
    /\ LET rec == OutputRecord(ClaimType(a.lead), a,
                               GetPrivAddress(privAddr.comp, s), GetBase16(s))
       IN Occurs(rec, stdoutS) \/ Occurs(rec, outFile)

\* C1: for every known scalar k, every partial scalar and every transform
\* Tn, a record in the base key's mode whose target is the address of
\* (partial + Tn(k)) mod order is, once the loop has finished with it, solved:
\* a scalar with that address was written to the sink and the record was not
\* reported unresolved.
C1_ReconstructionCorrect ==
  \A r \in Finished : \A n \in 1 .. 6 :
    C1_Case(r, n) => C1_Emitted(r) /\ ~ReportedUnresolved(r)

C1_Witness ==
  /\ pc = "done"
  /\ privAddr.key # 0
  /\ C1_Case(0, 5)
  /\ C1_Emitted(0)
  /\ Len(sinkCalls) = 1
  /\ sinkCalls[1].t = 5

----------------------------------------------------------------------------
(* C2 *)

\* C2: trial stops at the first matching transform, so that a record causes at
\* most one write to the sink: no two outputAdd calls belong to one record.
C2_AtMostOneWritePerRecord ==
  \A a, b \in DOMAIN sinkCalls : sinkCalls[a].rec = sinkCalls[b].rec => a = b

----------------------------------------------------------------------------
(* C3 *)

C3_NoMatch == addr \notin CandidateAddresses

C3_NewUnresolvedReport ==
  /\ Len(stdoutS') = Len(stdoutS) + 1
  /\ stdoutS'[Len(stdoutS')].k = "Unable to reconstruct final key"

\* C3: a record under trial whose target is none of the six candidate
\* addresses causes no write to the sink and is reported unresolved, the
\* report is made exactly when no candidate matched, and the loop goes on
\* with the next record.
C3_NegativeCase ==
  /\ [](pc = "after" =>
          /\ found <=> ~C3_NoMatch
          /\ C3_NoMatch => \A c \in DOMAIN sinkCalls : sinkCalls[c].rec # i)
  /\ [][(pc = "check" /\ C3_NoMatch) =>
          (stdoutS' = stdoutS /\ outFile' = outFile /\ sinkCalls' = sinkCalls)]_vars
  /\ [][(pc = "after" /\ C3_NoMatch) =>
          /\ stdoutS' = Append(stdoutS, Out("Unable to reconstruct final key", "",
                                            <<i, addr, partialPrivAddr>>))
          /\ outFile' = outFile
          /\ pc' = "loop"
          /\ i' = i + 2
          /\ exitCode' = exitCode]_vars
  /\ [][C3_NewUnresolvedReport => (pc = "after" /\ C3_NoMatch)]_vars

C3_Witness ==
  /\ pc = "check"
  /\ i = 2
  /\ ReportedUnresolved(0)
  /\ sinkCalls = <<>>

----------------------------------------------------------------------------
(* C4 *)

\* The run has not gone past record r: it has not reached it, is about to
\* handle it, or has terminated at it with a non-zero status.
C4_StopsAt(r) ==
  /\ r >= i
  /\ r = i => (pc = "loop" \/ (pc = "exit" /\ exitCode # 0))

\* C4 as stated: a record whose second line lacks the "PartialPriv: " prefix
\* is fatal at that record, whatever its first line holds.
C4_MissingPartialPrivIsFatal ==
  \A r \in Pairs : lines[r + 2].prefix # "PartialPriv: " => C4_StopsAt(r)

\* The first line of record r is an address line with an unsupported leading
\* character.
C4_UnsupportedAddress(r) ==
  /\ lines[r + 1].prefix = "PubAddress: "
  /\ lines[r + 1].addr.lead \notin SupportedLeads

\* C4 as amended: a record whose second line lacks the "PartialPriv: " prefix
\* is fatal at that record, unless its first line is an address line with an
\* unsupported leading character.
C4_MissingPartialPrivIsFatalIfSupported ==
  \A r \in Pairs :
    (lines[r + 2].prefix # "PartialPriv: " /\ ~C4_UnsupportedAddress(r)) => C4_StopsAt(r)

C4_Witness ==
  /\ pc = "exit"
  /\ exitCode # 0
  /\ i = 2
  /\ i \in Pairs
  /\ lines[i + 1].prefix = "PubAddress: "
  /\ lines[i + 1].addr.lead \in SupportedLeads
  /\ lines[i + 2].prefix # "PartialPriv: "

----------------------------------------------------------------------------
(* C5 *)

\* The step handles a record that is to be skipped: an address line with an
\* unsupported leading character, or a supported one followed by a partial
\* key whose decoded compression flag differs from the base key's.
C5_SkipCase ==
  /\ pc = "loop"
  /\ i < Len(lines)
  /\ lines[i + 1].prefix = "PubAddress: "
  /\ \/ lines[i + 1].addr.lead \notin SupportedLeads
     \/ /\ i \in Pairs
        /\ lines[i + 2].prefix = "PartialPriv: "
        /\ partialMode' # privAddr.comp

\* The step writes diagnostics only.
C5_OnlyDiagnostics ==
  /\ outFile' = outFile
  /\ sinkCalls' = sinkCalls
  /\ Len(stdoutS') >= Len(stdoutS)
  /\ SubSeq(stdoutS', 1, Len(stdoutS)) = stdoutS
  /\ \A j \in (Len(stdoutS) + 1) .. Len(stdoutS') :
       stdoutS'[j].k \notin {"Pub Addr", "Priv (WIF)", "Priv (HEX)"}

\* The transforms whose candidate is the target of record r, from the
\* record's two lines and the base key alone.
C5_Matching(r) ==
  {n \in 1 .. 6 :
     AddressOf(lines[r + 1].addr, privAddr.comp,
               (DecodePrivateKey(lines[r + 2].text) + ClaimT(n, privAddr.key)) % order)
       = lines[r + 1].addr}

\* C5: a skipped record causes no write to the sink and no termination and
\* consumes exactly its two lines; the trial of every record depends on its
\* own two lines and the base key only, so that a record after a skipped one
\* has the outcome it has without it.
C5_SkipIsNeutral ==
  /\ [][C5_SkipCase =>
          /\ pc' = "loop"
          /\ i' = i + 2
          /\ exitCode' = exitCode
          /\ C5_OnlyDiagnostics]_vars
  /\ []((pc \in {"check", "after"} /\ i \in Pairs) =>
          /\ addr = lines[i + 1].addr
          /\ addrType = ClaimType(addr.lead)
          /\ partialPrivAddr = lines[i + 2].text
          /\ partialPrivKey = DecodePrivateKey(lines[i + 2].text)
          /\ privKey = DecodePrivateKey(privAddr)
          /\ compressed = privAddr.comp)
  /\ []((pc = "after" /\ i \in Pairs) =>
          /\ {sinkCalls[c].t : c \in {d \in DOMAIN sinkCalls : sinkCalls[d].rec = i}}
               = C5_Matching(i)
          /\ found <=> C5_Matching(i) # {})

C5_Witness ==
  /\ pc = "after"
  /\ i = 2
  /\ found
  /\ Len(stdoutS) >= 1
  /\ stdoutS[1].k \in {"Warning, wrong compression mode", "Invalid partialkey info file"}
  /\ stdoutS[1].v = 0

----------------------------------------------------------------------------
(* C6 *)

\* C6: with an undecodable known base key the run terminates with a non-zero
\* status before the record file is opened or read, no record is handled and
\* nothing is written.
C6_InvalidBaseKeyAborts ==
  (cmd = "rp" /\ ~privAddr.ok) =>
    /\ pc \in {"main", "exit"}
    /\ pc = "exit" => exitCode # 0
    /\ lines = <<>>
    /\ i = 0
    /\ sinkCalls = <<>>
    /\ stdoutS = <<>>
    /\ outFile = <<>>

C6_Witness ==
  /\ cmd = "rp"
  /\ ~privAddr.ok
  /\ pc = "exit"
  /\ exitCode # 0
  /\ fileOpens
  /\ Len(file) >= 2

----------------------------------------------------------------------------
(* C7 *)

\* C7: the sentinel scalar of an undecodable PartialPriv text is never the
\* partial scalar of a candidate trial and never leads to a write to the sink.
C7_SentinelNeverTried ==
  /\ pc \in {"check", "after"} => ~IsNegative(partialPrivKey)
  /\ \A c \in DOMAIN sinkCalls :
       sinkCalls[c].rec \in Pairs => lines[sinkCalls[c].rec + 2].text.ok

----------------------------------------------------------------------------
(* C8 *)

ClaimTag(type) ==
  CASE type = "P2PKH" -> "p2pkh:"
    [] type = "P2SH" -> "p2wpkh-p2sh:"
    [] OTHER -> "p2wpkh:"

\* The step is a CHECK_ADDR() whose candidate is the target: outputAdd is called.
C8_Call == pc = "check" /\ cAddr' = addr

\* The complete result record of the call: address, tagged key, hex key.
C8_Record ==
  <<Out("Pub Addr", "", addr),
    Out("Priv (WIF)", ClaimTag(ClaimType(addr.lead)), KeyText(fullPriv', compressed)),
    Out("Priv (HEX)", "0x", GetBase16(fullPriv'))>>

\* C8: every call of outputAdd appends one complete result record to exactly
\* one stream: the destination file when one is given and opens, stdout when
\* none is given, and stdout after a diagnostic when the destination does not
\* open.
C8_NeverDrops ==
  [][C8_Call =>
       /\ Len(sinkCalls') = Len(sinkCalls) + 1
       /\ IF outputFile # "" /\ sinkCalls'[Len(sinkCalls')].toFile
            THEN /\ outFile' = outFile \o C8_Record
                 /\ stdoutS' = stdoutS
            ELSE /\ outFile' = outFile
                 /\ stdoutS' =
                      (IF outputFile # ""
                         THEN Append(stdoutS, Out("Cannot open for writing", "", outputFile))
                         ELSE stdoutS) \o C8_Record]_vars

C8_Witness ==
  /\ outputFile # ""
  /\ Len(sinkCalls) = 2
  /\ sinkCalls[1].toFile
  /\ ~sinkCalls[2].toFile
  /\ Len(outFile) = 3
  /\ Len(stdoutS) = 4
  /\ stdoutS[1].k = "Cannot open for writing"
  /\ stdoutS[4].k = "Priv (HEX)"

----------------------------------------------------------------------------
(* C9 *)

C9_Derived == \E j \in DOMAIN kpOps : kpOps[j] \in {"pbkdf2_hmac_sha512", "sha256", "ComputePublicKey"}

C9_Printed == \E j \in DOMAIN stdoutS : stdoutS[j].k \in {"Priv", "Pub"}

\* C9: generateKeyPair derives and prints a key pair only for a seed of at
\* least 8 characters and a mode other than both; a shorter seed and the mode
\* both each end the run with a non-zero status, its own diagnostic, no
\* derivation, no curve operation and no key pair printed.
C9_DerivesOnlyValid ==
  (cmd = "kp" /\ pc # "main") =>
    /\ (C9_Derived \/ C9_Printed) => (seedLen >= 8 /\ searchMode # "SEARCH_BOTH")
    /\ seedLen < 8 =>
         /\ pc = "exit" /\ exitCode # 0
         /\ stdoutS[1].k = "Error: seed too short"
    /\ (seedLen >= 8 /\ searchMode = "SEARCH_BOTH") =>
         /\ pc = "exit" /\ exitCode # 0
         /\ stdoutS[1].k = "Error: compressed or uncompressed"
    /\ (seedLen >= 8 /\ searchMode # "SEARCH_BOTH") =>
         /\ pc = "done" /\ exitCode = 0
         /\ C9_Derived /\ C9_Printed

C9_Witness ==
  /\ cmd = "kp"
  /\ pc = "exit"
  /\ seedLen >= 8
  /\ searchMode = "SEARCH_BOTH"
  /\ paranoiacSeed
  /\ kpOps = <<"getSeed">>

----------------------------------------------------------------------------
(* C10 *)

\* The lines of the file that are not blank.
C10_Lines == SelectSeq(file, LAMBDA l : l.prefix # "")

\* The input holds no fatal condition: the base key decodes, the file opens
\* and is a list of pairs of an address line and a partial key line.
C10_NoFatal ==
  /\ cmd = "rp"
  /\ privAddr.ok
  /\ fileOpens
  /\ Len(C10_Lines) % 2 = 0
  /\ \A j \in DOMAIN C10_Lines :
       C10_Lines[j].prefix = (IF j % 2 = 1 THEN "PubAddress: " ELSE "PartialPriv: ")

\* The addresses of the result records of the stream s, in order.
C10_Written(s) ==
  LET heads == SelectSeq(s, LAMBDA o : o.k = "Pub Addr")
  IN [j \in DOMAIN heads |-> heads[j].v]

\* The targets of the outputAdd calls that went to the file (or not), in order.
C10_Called(toFile) ==
  LET calls == SelectSeq(sinkCalls, LAMBDA c : c.toFile = toFile)
  IN [j \in DOMAIN calls |-> lines[calls[j].rec + 1].addr]

\* C10: on a list of line pairs without fatal condition the run ends by
\* returning, having taken the records one at a time, each once, in file
\* order; the writes to the sink are in the order of their records, and the
\* known scalar is the decoded base key for every record.
C10_SequentialToCompletion ==
  /\ C10_NoFatal => <>(pc = "done")
  /\ [](C10_NoFatal =>
          /\ pc \notin {"exit", "crashed"}
          /\ pc = "done" => (i = Len(C10_Lines) /\ exitCode = 0)
          /\ pc \in {"check", "after"} => (i % 2 = 0 /\ i + 2 <= Len(lines))
          /\ pc # "main" => (lines = C10_Lines /\ privKey = privAddr.key)
          /\ \A a, b \in DOMAIN sinkCalls : a < b => sinkCalls[a].rec <= sinkCalls[b].rec
          /\ C10_Written(outFile) = C10_Called(TRUE)
          /\ C10_Written(stdoutS) = C10_Called(FALSE))
  /\ [][C10_NoFatal =>
          /\ pc = "loop" => \/ pc' = "check" /\ i' = i
                            \/ pc' = "loop" /\ i' = i + 2
                            \/ pc' = "done" /\ i' = i /\ i = Len(lines)
          /\ pc = "check" => (pc' \in {"check", "after"} /\ i' = i)
          /\ pc = "after" => (pc' = "loop" /\ i' = i + 2)
          /\ pc # "main" => privKey' = privKey]_vars

C10_Witness ==
  /\ C10_NoFatal
  /\ pc = "done"
  /\ Len(lines) = 4
  /\ Len(sinkCalls) = 2
  /\ sinkCalls[1].rec = 0
  /\ sinkCalls[2].rec = 2
  /\ sinkCalls[2].t = 6

----------------------------------------------------------------------------
(* C11 *)

\* C11: every index at which the line vector is read is within its bounds: an
\* index 2i+1 is read only when the vector holds at least 2i+2 lines.
C11_ReadsInBounds == \A j \in reads : j >= 0 /\ j + 1 <= Len(lines)

====
